---- MODULE Spec2Model ----
(***************************************************************************)
(* Model of reddit_news.py: RedditSentimentAnalyzer and its __main__       *)
(* pipeline (fetch headlines, score them, write a CSV backup, validate it, *)
(* upload it to a blob container).                                         *)
(*                                                                         *)
(* Text is a sequence of symbols.  A symbol is either one significant      *)
(* character (double quote, comma, line feed, carriage return, space, tab) *)
(* or a token that stands for a run of ordinary characters, none of which  *)
(* is a quote, a comma, a line break or whitespace ("a", a column name, a  *)
(* label, the text of a number).  The writer's escape character, the       *)
(* backslash, is an ordinary character here: the writer may double it, and *)
(* it is never part of the separator that validation counts.               *)
(*                                                                         *)
(* Scores are integers: negative, neutral and positive in thousandths,     *)
(* compound in ten-thousandths (the scorer rounds to 3 and 4 decimals), so *)
(* 0.2 is 2000.                                                            *)
(***************************************************************************)
EXTENDS Integers, Sequences, FiniteSets, TLC

VARIABLES
    \* ---- the process (one run of __main__) ----
    pc,             \* position in __main__ / fetch_headlines / save_to_blob
    listing,        \* titles yielded so far by subreddit(...).new(limit)
    headline_set,   \* fetch_headlines: the local set `headlines`
    headlines,      \* __main__: the list fetch_headlines returned
    sentiment_df,   \* __main__: the table, a sequence of records
    saveResult,     \* what save_to_blob returned: "none", "True", "False"
    fileOpen,       \* the handle of `with open(local_path, 'w')` is open
    \* ---- the world, kept from run to run ----
    fileExists,     \* reddit_data_backups/reddit_news.csv exists
    fileContent,    \* its content
    containerExists,\* container "reddit-sentiment-data" exists
    blobExists,     \* blob "reddit_news.csv" exists
    blobContent,    \* its content
    \* ---- history of the current run / save_to_blob call ----
    calls,          \* how often each step of save_to_blob ran in this call
    failedAt,       \* the step of save_to_blob that raised, or "none"
    fetchFailed,    \* the listing raised during fetch_headlines
    saves,          \* save_to_blob calls made on the current table
    dfAtCall,       \* the table as it was when save_to_blob was entered
    \* ---- the pure functions, applied to one input ----
    text,           \* input of _clean_headline
    cleaned,        \* its result
    csvOut,         \* what csv.writer writes for the row of `cleaned`
    accepted,       \* what _validate_csv answers for csvOut
    phase,          \* "input", "cleaned", "written", "validated"
    compound_score, \* input of _categorize_sentiment
    label           \* its result

procVars  == <<pc, listing, headline_set, headlines, sentiment_df, saveResult, fileOpen>>
worldVars == <<fileExists, fileContent, containerExists, blobExists, blobContent>>
histVars  == <<calls, failedAt, fetchFailed, saves, dfAtCall>>
pureVars  == <<text, cleaned, csvOut, accepted, phase, compound_score, label>>
vars      == <<procVars, worldVars, histVars, pureVars>>

----------------------------------------------------------------------------
(* Bounds *)

\* longest input text of the pure-function specification
MaxLen == 4
\* most items the listing yields in one run (the code asks for limit=500)
MaxItems == 3
\* most save_to_blob calls made on one table
MaxSaves == 2

----------------------------------------------------------------------------
(* Symbols *)

Quote == "dq"
Comma == ","
LF == "LF"
CR == "CR"
Space == " "
Tab == "TAB"
Letter == "a"

Alphabet == {Quote, Comma, LF, CR, Space, Tab, Letter}

\* str.strip() with no argument removes whitespace, line breaks included
IsSpace(c) == c \in {Space, Tab, LF, CR}

RECURSIVE StringsOfLen(_)
StringsOfLen(n) ==
    IF n = 0 THEN {<<>>}
    ELSE {Append(s, c) : s \in StringsOfLen(n - 1), c \in Alphabet}

Strings == UNION {StringsOfLen(n) : n \in 0..MaxLen}

----------------------------------------------------------------------------
(* _categorize_sentiment *)

PositiveThreshold == 2000
NegativeThreshold == -2000

\* compound scores from -1.0 to 1.0 in steps of 0.0001
Compounds == -10000 .. 10000

_categorize_sentiment_strict(c) ==
    IF c > PositiveThreshold THEN "Positive"
    ELSE IF c < NegativeThreshold THEN "Negative"
    ELSE "Neutral"

_categorize_sentiment(c) ==
    IF c >= PositiveThreshold THEN "Positive"
    ELSE IF c <= NegativeThreshold THEN "Negative"
    ELSE "Neutral"

----------------------------------------------------------------------------
(* _clean_headline *)

\* str.replace(old, new) for a one-character old and a text new
RECURSIVE Replace(_, _, _)
Replace(s, old, new) ==
    IF s = <<>> THEN <<>>
    ELSE (IF Head(s) = old THEN new ELSE <<Head(s)>>) \o Replace(Tail(s), old, new)

RECURSIVE LStrip(_)
LStrip(s) ==
    IF s # <<>> /\ IsSpace(Head(s)) THEN LStrip(Tail(s)) ELSE s

RECURSIVE RStrip(_)
RStrip(s) ==
    IF s # <<>> /\ IsSpace(s[Len(s)]) THEN RStrip(SubSeq(s, 1, Len(s) - 1)) ELSE s

Strip(s) == RStrip(LStrip(s))

_clean_headline_keeps_cr(t) ==
    Strip(Replace(Replace(t, Quote, <<Quote, Quote>>), LF, <<Space>>))

_clean_headline(t) ==
    Strip(Replace(Replace(Replace(t, Quote, <<Quote, Quote>>), LF, <<Space>>), CR, <<Space>>))

----------------------------------------------------------------------------
(* csv.writer(f, quoting=QUOTE_ALL, escapechar='\\').writerow, and _validate_csv *)

\* default textual representation of a number: one token
FloatText(n) == <<ToString(n)>>

\* one field: quoted unconditionally, embedded quotes doubled (doublequote)
QuotedField(f) == <<Quote>> \o Replace(f, Quote, <<Quote, Quote>>) \o <<Quote>>

RECURSIVE JoinFields(_)
JoinFields(fields) ==
    IF Len(fields) = 0 THEN <<>>
    ELSE IF Len(fields) = 1 THEN QuotedField(fields[1])
    ELSE QuotedField(fields[1]) \o <<Comma>> \o JoinFields(Tail(fields))

\* writerow: the fields joined by the delimiter, then the line terminator \r\n
\* (the file is opened with newline='', so the terminator is written as is)
WriteRow(fields) == JoinFields(fields) \o <<CR, LF>>

HeaderFields ==
    << <<"headline">>, <<"negative">>, <<"neutral">>, <<"positive">>,
       <<"compound">>, <<"label">> >>

RowFields(row) ==
    << row.headline, FloatText(row.negative), FloatText(row.neutral),
       FloatText(row.positive), FloatText(row.compound), <<row.label>> >>

\* iterating a file opened in text mode 'r': universal newlines, a line ends at
\* \r\n, \r or \n and is handed over ending in \n; a last line without a line
\* break is handed over as it is.  LinesFrom(s, i): the lines of s from index i
RECURSIVE LinesFrom(_, _)
LinesFrom(s, i) ==
    LET breaks == {p \in i..Len(s) : s[p] \in {CR, LF}} IN
    IF breaks = {} THEN (IF i > Len(s) THEN <<>> ELSE <<SubSeq(s, i, Len(s))>>)
    ELSE
        LET p == CHOOSE q \in breaks : \A r \in breaks : q <= r
            next == IF s[p] = CR /\ p < Len(s) /\ s[p + 1] = LF THEN p + 2 ELSE p + 1
        IN  <<Append(SubSeq(s, i, p - 1), LF)>> \o LinesFrom(s, next)

ReadLines(s) == LinesFrom(s, 1)

\* line.count('","'): occurrences that do not overlap, found from the left
RECURSIVE CountFrom(_, _)
CountFrom(line, i) ==
    LET found == {p \in i..(Len(line) - 2) :
                    line[p] = Quote /\ line[p + 1] = Comma /\ line[p + 2] = Quote} IN
    IF found = {} THEN 0
    ELSE 1 + CountFrom(line, (CHOOSE q \in found : \A r \in found : q <= r) + 3)

CountSeparators(line) == CountFrom(line, 1)

ExpectedSeparators == 5

\* for each line: if line.count('","') != 5: return False; at the end return True
_validate_csv(content) ==
    LET lines == ReadLines(content) IN
    \A i \in 1..Len(lines) : CountSeparators(lines[i]) = ExpectedSeparators

----------------------------------------------------------------------------
(* The scorer and the table *)

\* titles the listing may yield: a plain one, one with quotes, a leading space
\* and a line feed, and one that holds the separator itself
TitlePlain == <<Letter>>
TitleQuoted == <<Space, Quote, Letter, Quote, LF>>
TitleSeparator == <<Quote, Comma, Quote>>

SampleTitles == {TitlePlain, TitleQuoted, TitleSeparator}

\* self.sia.polarity_scores(headline): the lexicon is an outside capability, a
\* fixed function of the text; here a table with one score on each threshold
polarity_scores(headline) ==
    IF headline = TitlePlain
        THEN [neg |-> 0, neu |-> 500, pos |-> 500, compound |-> 2000]
    ELSE IF headline = TitleQuoted
        THEN [neg |-> 500, neu |-> 500, pos |-> 0, compound |-> -2000]
    ELSE [neg |-> 0, neu |-> 1000, pos |-> 0, compound |-> 0]

ScoreRecord(headline) ==
    [headline |-> headline,
     negative |-> polarity_scores(headline).neg,
     neutral  |-> polarity_scores(headline).neu,
     positive |-> polarity_scores(headline).pos,
     compound |-> polarity_scores(headline).compound,
     label    |-> _categorize_sentiment(polarity_scores(headline).compound)]

\* analyze_sentiment, then [required_columns].dropna(): the scorer gives no
\* missing value, so no row is dropped
analyze_sentiment(hs) == [i \in 1..Len(hs) |-> ScoreRecord(hs[i])]

\* _save_locally: header row, then one row per record
RECURSIVE WriteRows(_)
WriteRows(rows) ==
    IF rows = <<>> THEN <<>>
    ELSE WriteRow(RowFields(Head(rows))) \o WriteRows(Tail(rows))

CsvContent(rows) == WriteRow(HeaderFields) \o WriteRows(rows)

----------------------------------------------------------------------------
(* Initial values *)

NoCalls ==
    [write |-> 0, validate |-> 0, connect |-> 0, exists |-> 0, create |-> 0, upload |-> 0]

ProcInit ==
    /\ pc = "fetching"
    /\ listing = <<>>
    /\ headline_set = {}
    /\ headlines = <<>>
    /\ sentiment_df = <<>>
    /\ saveResult = "none"
    /\ fileOpen = FALSE
    /\ calls = NoCalls
    /\ failedAt = "none"
    /\ fetchFailed = FALSE
    /\ saves = 0
    /\ dfAtCall = <<>>

WorldInit ==
    /\ fileExists = FALSE
    /\ fileContent = <<>>
    /\ blobExists = FALSE
    /\ blobContent = <<>>

PureIdle ==
    /\ text = <<>>
    /\ cleaned = <<>>
    /\ csvOut = <<>>
    /\ accepted = FALSE
    /\ phase = "idle"
    /\ compound_score = 0
    /\ label = "none"

----------------------------------------------------------------------------
(* Specification of _categorize_sentiment on every compound score *)

InitCategorize ==
    /\ ProcInit /\ WorldInit /\ containerExists = FALSE
    /\ text = <<>> /\ cleaned = <<>> /\ csvOut = <<>> /\ accepted = FALSE
    /\ phase = "idle"
    /\ compound_score \in Compounds
    /\ label = "none"

Categorize ==
    /\ label = "none"
    /\ label' = _categorize_sentiment(compound_score)
    /\ UNCHANGED <<procVars, worldVars, histVars>>
    /\ UNCHANGED <<text, cleaned, csvOut, accepted, phase, compound_score>>

SpecCategorize == InitCategorize /\ [][Categorize]_vars

----------------------------------------------------------------------------
(* Specification of _clean_headline, the writer and _validate_csv on every text *)

InitClean ==
    /\ ProcInit /\ WorldInit /\ containerExists = FALSE
    /\ text \in Strings
    /\ cleaned = <<>> /\ csvOut = <<>> /\ accepted = FALSE
    /\ phase = "input"
    /\ compound_score = 0
    /\ label = "none"

Clean ==
    /\ phase = "input"
    /\ cleaned' = _clean_headline(text)
    /\ phase' = "cleaned"
    /\ UNCHANGED <<procVars, worldVars, histVars>>
    /\ UNCHANGED <<text, csvOut, accepted, compound_score, label>>

\* _save_locally on a one-row table whose headline is `cleaned`
WriteCleaned ==
    /\ phase = "cleaned"
    /\ \E t \in SampleTitles :
        csvOut' = CsvContent(<<[ScoreRecord(t) EXCEPT !.headline = cleaned]>>)
    /\ phase' = "written"
    /\ UNCHANGED <<procVars, worldVars, histVars>>
    /\ UNCHANGED <<text, cleaned, accepted, compound_score, label>>

ValidateWritten ==
    /\ phase = "written"
    /\ accepted' = _validate_csv(csvOut)
    /\ phase' = "validated"
    /\ UNCHANGED <<procVars, worldVars, histVars>>
    /\ UNCHANGED <<text, cleaned, csvOut, compound_score, label>>

NextClean == Clean \/ WriteCleaned \/ ValidateWritten

SpecClean == InitClean /\ [][NextClean]_vars

----------------------------------------------------------------------------
(* The pipeline: fetch_headlines, __main__, save_to_blob *)

\* what fetch_headlines and save_to_blob may see raised; all derive from Exception
ExceptionKinds == {"RequestException", "OSError", "ValueError", "AzureError"}

\* fetch_headlines: `except Exception`
FetchCatches(kind) == kind \in ExceptionKinds

SaveCatchesValueErrorOnly(kind) == kind = "ValueError"

\* save_to_blob: `except Exception`
SaveCatches(kind) == kind \in ExceptionKinds

\* list(headlines): the elements of the set, each once, in an order the set decides
Orderings(S) ==
    {s \in [1..Cardinality(S) -> S] : \A i, j \in 1..Cardinality(S) : i # j => s[i] # s[j]}

PartialOnFetchError(collected) == CHOOSE s \in Orderings(collected) : TRUE

\* fetch_headlines: `return []` in the handler, whatever was collected
OnFetchError(collected) == <<>>

analyze_sentiment_drops_neutral(hs) ==
    SelectSeq(analyze_sentiment(hs), LAMBDA r : r.label # "Neutral")

\* __main__: sentiment_df = analyze_sentiment(headlines)[required_columns].dropna()
MainTable(hs) == analyze_sentiment(hs)

CleanTableOnCopy(df) == df

\* _save_locally: df['headline'] = df['headline'].apply(self._clean_headline)
CleanTable(df) ==
    [i \in 1..Len(df) |-> [df[i] EXCEPT !.headline = _clean_headline(df[i].headline)]]

KeptOnOpen(content) == content

\* open(local_path, 'w'): the file is created or truncated
TruncatedOnOpen(content) == <<>>

\* the first k of the lines _save_locally writes (header, then the rows)
WrittenPrefix(df, k) ==
    IF k = 0 THEN <<>> ELSE CsvContent(SubSeq(df, 1, k - 1))

\* an exception raised inside the try block of save_to_blob at `step`
Raise(kind, step) ==
    /\ failedAt' = step
    /\ IF SaveCatches(kind)
        THEN pc' = "failed" /\ saveResult' = "False"
        ELSE pc' = "crashed" /\ UNCHANGED saveResult

Count(step) == calls' = [calls EXCEPT ![step] = @ + 1]

Init ==
    /\ ProcInit /\ WorldInit /\ PureIdle
    /\ containerExists \in BOOLEAN

\* for submission in ...new(limit): headlines.add(submission.title)
FetchItem ==
    /\ pc = "fetching"
    /\ Len(listing) < MaxItems
    /\ \E title \in SampleTitles :
        /\ listing' = Append(listing, title)
        /\ headline_set' = headline_set \cup {title}
    /\ UNCHANGED <<pc, headlines, sentiment_df, saveResult, fileOpen>>
    /\ UNCHANGED <<worldVars, histVars, pureVars>>

\* the listing raises, before the first item or after any number of them
FetchRaises ==
    /\ pc = "fetching"
    /\ fetchFailed' = TRUE
    /\ IF FetchCatches("RequestException")
        THEN pc' = "fetched" /\ headlines' = OnFetchError(headline_set)
        ELSE pc' = "crashed" /\ UNCHANGED headlines
    /\ UNCHANGED <<listing, headline_set, sentiment_df, saveResult, fileOpen>>
    /\ UNCHANGED <<calls, failedAt, saves, dfAtCall>>
    /\ UNCHANGED <<worldVars, pureVars>>

\* the listing ends: return list(headlines)
FetchReturns ==
    /\ pc = "fetching"
    /\ \E order \in Orderings(headline_set) : headlines' = order
    /\ pc' = "fetched"
    /\ UNCHANGED <<listing, headline_set, sentiment_df, saveResult, fileOpen>>
    /\ UNCHANGED <<worldVars, histVars, pureVars>>

\* __main__: if headlines: sentiment_df = analyze_sentiment(headlines)...
MainAnalyze ==
    /\ pc = "fetched"
    /\ headlines # <<>>
    /\ sentiment_df' = MainTable(headlines)
    /\ pc' = "analyzed"
    /\ UNCHANGED <<listing, headline_set, headlines, saveResult, fileOpen>>
    /\ UNCHANGED <<worldVars, histVars, pureVars>>

\* __main__: else: print("No headlines were fetched")
MainNoHeadlines ==
    /\ pc = "fetched"
    /\ headlines = <<>>
    /\ pc' = "exit"
    /\ UNCHANGED <<listing, headline_set, headlines, sentiment_df, saveResult, fileOpen>>
    /\ UNCHANGED <<worldVars, histVars, pureVars>>

\* save_to_blob is entered
EnterSave ==
    /\ pc' = "clean"
    /\ saveResult' = "none"
    /\ calls' = NoCalls
    /\ failedAt' = "none"
    /\ saves' = saves + 1
    /\ dfAtCall' = sentiment_df
    /\ listing' = <<>>
    /\ UNCHANGED <<headline_set, headlines, sentiment_df, fileOpen, fetchFailed>>
    /\ UNCHANGED <<worldVars, pureVars>>

\* __main__: analyzer.save_to_blob(sentiment_df)
MainSave ==
    /\ pc = "analyzed"
    /\ EnterSave

\* a caller of the class saves the same table again
CallerSavesAgain ==
    /\ pc \in {"saved", "failed"}
    /\ saves < MaxSaves
    /\ EnterSave

\* _save_locally: the cleaning is assigned back into the caller's table
CleanStep ==
    /\ pc = "clean"
    /\ sentiment_df' = CleanTable(sentiment_df)
    /\ pc' = "open"
    /\ UNCHANGED <<listing, headline_set, headlines, saveResult, fileOpen>>
    /\ UNCHANGED <<worldVars, histVars, pureVars>>

\* _save_locally: with open(local_path, 'w', ...) as f
OpenFile ==
    /\ pc = "open"
    /\ Count("write")
    /\ fileExists' = TRUE
    /\ fileContent' = TruncatedOnOpen(fileContent)
    /\ fileOpen' = TRUE
    /\ pc' = "write"
    /\ UNCHANGED <<listing, headline_set, headlines, sentiment_df, saveResult>>
    /\ UNCHANGED <<containerExists, blobExists, blobContent>>
    /\ UNCHANGED <<failedAt, fetchFailed, saves, dfAtCall, pureVars>>

\* open raises (no permission, directory gone): the file is as it was
OpenRaises ==
    /\ pc = "open"
    /\ Count("write")
    /\ Raise("OSError", "write")
    /\ UNCHANGED <<listing, headline_set, headlines, sentiment_df, fileOpen>>
    /\ UNCHANGED <<fetchFailed, saves, dfAtCall>>
    /\ UNCHANGED <<worldVars, pureVars>>

\* _save_locally: header and every row written, the with block closes the file
WriteFile ==
    /\ pc = "write"
    /\ fileContent' = fileContent \o CsvContent(sentiment_df)
    /\ fileOpen' = FALSE
    /\ pc' = "validate"
    /\ UNCHANGED <<listing, headline_set, headlines, sentiment_df, saveResult>>
    /\ UNCHANGED <<fileExists, containerExists, blobExists, blobContent>>
    /\ UNCHANGED <<histVars, pureVars>>

\* a write raises (disk full) after k lines: the with block closes the file
WriteRaises ==
    /\ pc = "write"
    /\ \E k \in 0..Len(sentiment_df) :
        fileContent' = fileContent \o WrittenPrefix(sentiment_df, k)
    /\ fileOpen' = FALSE
    /\ Raise("OSError", "write")
    /\ UNCHANGED <<listing, headline_set, headlines, sentiment_df>>
    /\ UNCHANGED <<fileExists, containerExists, blobExists, blobContent>>
    /\ UNCHANGED <<calls, fetchFailed, saves, dfAtCall, pureVars>>

ValidateStepIgnoresResult ==
    /\ pc = "validate"
    /\ Count("validate")
    /\ pc' = "connect"
    /\ failedAt' = IF _validate_csv(fileContent) THEN failedAt ELSE "validate"
    /\ UNCHANGED <<listing, headline_set, headlines, sentiment_df, saveResult, fileOpen>>
    /\ UNCHANGED <<fetchFailed, saves, dfAtCall>>
    /\ UNCHANGED <<worldVars, pureVars>>

\* if not self._validate_csv(local_path): raise ValueError(...)
ValidateStep ==
    /\ pc = "validate"
    /\ Count("validate")
    /\ IF _validate_csv(fileContent)
        THEN pc' = "connect" /\ UNCHANGED <<failedAt, saveResult>>
        ELSE Raise("ValueError", "validate")
    /\ UNCHANGED <<listing, headline_set, headlines, sentiment_df, fileOpen>>
    /\ UNCHANGED <<fetchFailed, saves, dfAtCall>>
    /\ UNCHANGED <<worldVars, pureVars>>

\* BlobServiceClient.from_connection_string, get_container_client
Connect ==
    /\ pc = "connect"
    /\ Count("connect")
    /\ pc' = "exists"
    /\ UNCHANGED <<listing, headline_set, headlines, sentiment_df, saveResult, fileOpen>>
    /\ UNCHANGED <<failedAt, fetchFailed, saves, dfAtCall>>
    /\ UNCHANGED <<worldVars, pureVars>>

\* the connection string is missing or malformed
ConnectRaises ==
    /\ pc = "connect"
    /\ Count("connect")
    /\ Raise("ValueError", "connect")
    /\ UNCHANGED <<listing, headline_set, headlines, sentiment_df, fileOpen>>
    /\ UNCHANGED <<fetchFailed, saves, dfAtCall>>
    /\ UNCHANGED <<worldVars, pureVars>>

\* if not container_client.exists(): ...
ContainerCheck ==
    /\ pc = "exists"
    /\ Count("exists")
    /\ pc' = IF containerExists THEN "upload" ELSE "create"
    /\ UNCHANGED <<listing, headline_set, headlines, sentiment_df, saveResult, fileOpen>>
    /\ UNCHANGED <<failedAt, fetchFailed, saves, dfAtCall>>
    /\ UNCHANGED <<worldVars, pureVars>>

ContainerCheckRaises ==
    /\ pc = "exists"
    /\ Count("exists")
    /\ Raise("AzureError", "exists")
    /\ UNCHANGED <<listing, headline_set, headlines, sentiment_df, fileOpen>>
    /\ UNCHANGED <<fetchFailed, saves, dfAtCall>>
    /\ UNCHANGED <<worldVars, pureVars>>

\* container_client.create_container()
CreateContainer ==
    /\ pc = "create"
    /\ Count("create")
    /\ containerExists' = TRUE
    /\ pc' = "upload"
    /\ UNCHANGED <<listing, headline_set, headlines, sentiment_df, saveResult, fileOpen>>
    /\ UNCHANGED <<fileExists, fileContent, blobExists, blobContent>>
    /\ UNCHANGED <<failedAt, fetchFailed, saves, dfAtCall, pureVars>>

CreateContainerRaises ==
    /\ pc = "create"
    /\ Count("create")
    /\ Raise("AzureError", "create")
    /\ UNCHANGED <<listing, headline_set, headlines, sentiment_df, fileOpen>>
    /\ UNCHANGED <<fetchFailed, saves, dfAtCall>>
    /\ UNCHANGED <<worldVars, pureVars>>

UploadRaisesAndRetries ==
    /\ pc = "upload"
    /\ Count("upload")
    /\ UNCHANGED <<procVars, worldVars, pureVars>>
    /\ UNCHANGED <<failedAt, fetchFailed, saves, dfAtCall>>

\* with open(local_path, 'rb') as data: upload_blob(data, overwrite=True); return True
Upload ==
    /\ pc = "upload"
    /\ Count("upload")
    /\ blobExists' = TRUE
    /\ blobContent' = fileContent
    /\ saveResult' = "True"
    /\ pc' = "saved"
    /\ UNCHANGED <<listing, headline_set, headlines, sentiment_df, fileOpen>>
    /\ UNCHANGED <<fileExists, fileContent, containerExists>>
    /\ UNCHANGED <<failedAt, fetchFailed, saves, dfAtCall, pureVars>>

\* the upload raises: the blob is as it was
UploadRaises ==
    /\ pc = "upload"
    /\ Count("upload")
    /\ Raise("AzureError", "upload")
    /\ UNCHANGED <<listing, headline_set, headlines, sentiment_df, fileOpen>>
    /\ UNCHANGED <<fetchFailed, saves, dfAtCall>>
    /\ UNCHANGED <<worldVars, pureVars>>

\* the script is run again: a new process, the file and the store as they were left
NewRun ==
    /\ pc \in {"exit", "saved", "failed"}
    /\ pc' = "fetching"
    /\ listing' = <<>>
    /\ headline_set' = {}
    /\ headlines' = <<>>
    /\ sentiment_df' = <<>>
    /\ saveResult' = "none"
    /\ fileOpen' = FALSE
    /\ calls' = NoCalls
    /\ failedAt' = "none"
    /\ fetchFailed' = FALSE
    /\ saves' = 0
    /\ dfAtCall' = <<>>
    /\ UNCHANGED <<worldVars, pureVars>>

Next ==
    \/ FetchItem \/ FetchRaises \/ FetchReturns
    \/ MainAnalyze \/ MainNoHeadlines \/ MainSave \/ CallerSavesAgain
    \/ CleanStep \/ OpenFile \/ OpenRaises \/ WriteFile \/ WriteRaises
    \/ ValidateStep
    \/ Connect \/ ConnectRaises
    \/ ContainerCheck \/ ContainerCheckRaises
    \/ CreateContainer \/ CreateContainerRaises
    \/ Upload \/ UploadRaises
    \/ NewRun

Spec == Init /\ [][Next]_vars

----------------------------------------------------------------------------
(* C1 *)

\* C1: the label is "Positive" exactly when the compound score is at least 0.2,
\* "Negative" exactly when it is at most -0.2 and "Neutral" exactly in between;
\* every score gets one of the three labels.  (0.2 is 2000 ten-thousandths.)
C1_Categorize ==
    label # "none" =>
        /\ label \in {"Positive", "Negative", "Neutral"}
        /\ (label = "Positive") <=> (10 * compound_score >= 2 * 10000)
        /\ (label = "Negative") <=> (10 * compound_score <= -2 * 10000)
        /\ (label = "Neutral") <=>
              (10 * compound_score < 2 * 10000 /\ 10 * compound_score > -2 * 10000)

\* the boundary case: exactly 0.2 has been labelled
C1_Witness == compound_score = 2000 /\ label = "Positive"

----------------------------------------------------------------------------
(* C7 *)

\* what one character of the input becomes
Image(c) ==
    IF c = Quote THEN <<Quote, Quote>>
    ELSE IF c \in {LF, CR} THEN <<Space>>
    ELSE <<c>>

QuotesIn(t, from, to) == Cardinality({m \in from..to : t[m] = Quote})

\* r is t between its first and its last non-whitespace character, each
\* character replaced by its image, in order
IsCleanedFormOf(r, t) ==
    LET kept == {k \in 1..Len(t) : ~IsSpace(t[k])} IN
    IF kept = {} THEN r = <<>>
    ELSE
        LET first == CHOOSE k \in kept : \A m \in kept : k <= m
            last  == CHOOSE k \in kept : \A m \in kept : k >= m
        IN  /\ Len(r) = (last - first + 1) + QuotesIn(t, first, last)
            /\ \A k \in first..last :
                LET at == (k - first + 1) + QuotesIn(t, first, k - 1) IN
                SubSeq(r, at, at + Len(Image(t[k])) - 1) = Image(t[k])

\* C7: _clean_headline doubles every quote, turns every line feed and carriage
\* return into one space and removes leading and trailing whitespace; the result
\* has no line feed or carriage return, no whitespace at either end, and keeps
\* every other character in order.
C7_CleanHeadline ==
    phase # "input" /\ phase # "idle" =>
        /\ IsCleanedFormOf(cleaned, text)
        /\ \A i \in 1..Len(cleaned) : cleaned[i] \notin {LF, CR}
        /\ cleaned # <<>> => ~IsSpace(cleaned[1]) /\ ~IsSpace(cleaned[Len(cleaned)])

\* a text with leading whitespace, a quote and a carriage return has been cleaned
C7_Witness ==
    /\ phase = "cleaned"
    /\ text = <<Tab, Quote, CR, Letter>>
    /\ cleaned = <<Quote, Quote, Space, Letter>>

----------------------------------------------------------------------------
(* C6 *)

\* C6: the row of a cleaned headline occupies exactly one line of the backup
\* file (the second, after the header), that line holds exactly 5 separators,
\* and _validate_csv accepts the file.
C6_CleanedRowValidates ==
    phase = "validated" =>
        /\ Len(ReadLines(csvOut)) = 2
        /\ CountSeparators(ReadLines(csvOut)[2]) = 5
        /\ accepted

----------------------------------------------------------------------------
(* The sink's state, as the specification names it *)

SinkState ==
    CASE pc \in {"fetching", "fetched", "analyzed", "exit"} -> "Idle"
      [] pc \in {"clean", "open", "write"} -> "Writing"
      [] pc = "validate" -> "Validating"
      [] pc \in {"connect", "exists", "create", "upload"} -> "Uploading"
      [] pc = "saved" -> "Done"
      [] pc = "failed" -> "Failed"
      [] OTHER -> "Crashed"

RemoteCalls == calls.connect + calls.exists + calls.create + calls.upload

----------------------------------------------------------------------------
(* C2 *)

\* C2: when validation rejects the written file, save_to_blob returns false, no
\* connection, container check, container creation or upload is made, and the
\* file written in this call is on disk.
C2_ValidationFailure ==
    failedAt = "validate" =>
        /\ pc = "failed"
        /\ saveResult = "False"
        /\ RemoteCalls = 0
        /\ fileExists
        /\ ~fileOpen
        /\ fileContent = CsvContent(sentiment_df)

\* validation has rejected a file in a run that found a blob of an earlier run
C2_Witness ==
    /\ failedAt = "validate"
    /\ ~_validate_csv(fileContent)
    /\ blobExists
    /\ blobContent # fileContent

----------------------------------------------------------------------------
(* C3 *)

StepsOf == {"write", "validate", "connect", "exists", "create", "upload"}

\* C3: no exception escapes save_to_blob; it returns false whenever a step
\* raised and true only when the write, the validation, the connection, the
\* container check (and creation, if one was needed) and the upload all ran
\* and none raised, the blob then holding the file.
C3_NoEscape ==
    /\ pc # "crashed"
    /\ failedAt # "none" => pc = "failed" /\ saveResult = "False"
    /\ pc = "failed" => failedAt \in StepsOf /\ saveResult = "False"
    /\ saveResult = "True" =>
        /\ pc = "saved"
        /\ failedAt = "none"
        /\ calls.write = 1 /\ calls.validate = 1 /\ calls.connect = 1
        /\ calls.exists = 1 /\ calls.upload = 1
        /\ containerExists
        /\ _validate_csv(fileContent)
        /\ blobExists /\ blobContent = fileContent

\* the container creation raised and save_to_blob returned false
C3_Witness == failedAt = "create" /\ pc = "failed" /\ saveResult = "False"

----------------------------------------------------------------------------
(* C4 *)

\* C4: when the listing raises during fetch_headlines, before or after items
\* were collected, fetch_headlines returns an empty list and the run scores
\* nothing, writes no file and makes no upload.
C4_FetchError ==
    fetchFailed =>
        /\ pc \in {"fetched", "exit"}
        /\ headlines = <<>>
        /\ sentiment_df = <<>>
        /\ saves = 0
        /\ calls = NoCalls
        /\ saveResult = "none"
        /\ ~fileOpen

\* the listing raised after two distinct titles were collected; the run ended
C4_Witness ==
    /\ fetchFailed
    /\ Cardinality(headline_set) = 2
    /\ pc = "exit"

----------------------------------------------------------------------------
(* C5 *)

TitlesOf(seq) == {seq[i] : i \in 1..Len(seq)}

\* C5: when the listing ends without error, the list fetch_headlines returns
\* holds each distinct title of the listing exactly once and nothing else, and
\* the table has exactly one record per distinct title, for that title.
C5_Dedup ==
    /\ (pc \in {"fetched", "analyzed"} /\ ~fetchFailed) =>
        /\ TitlesOf(headlines) = TitlesOf(listing)
        /\ Len(headlines) = Cardinality(TitlesOf(listing))
    /\ pc = "analyzed" =>
        /\ Len(sentiment_df) = Cardinality(TitlesOf(listing))
        /\ \A t \in TitlesOf(listing) :
            Cardinality({i \in 1..Len(sentiment_df) : sentiment_df[i].headline = t}) = 1

\* three titles fetched, one an exact duplicate, gave two rows
C5_Witness ==
    /\ pc = "analyzed"
    /\ Len(listing) = 3
    /\ listing[1] = listing[3]
    /\ Len(sentiment_df) = 2

----------------------------------------------------------------------------
(* C8 *)

SinkPath ==
    { <<"Idle", "Writing">>, <<"Writing", "Validating">>,
      <<"Validating", "Uploading">>, <<"Uploading", "Done">>,
      <<"Writing", "Failed">>, <<"Validating", "Failed">>,
      <<"Uploading", "Failed">> }

\* a step that belongs to the save_to_blob call in progress (not the entry of a
\* new call, not a new run)
WithinCall == saves' = saves

C8_Step ==
    /\ (WithinCall \/ SinkState = "Idle") /\ SinkState' # SinkState =>
        <<SinkState, SinkState'>> \in SinkPath
    /\ (SinkState' = "Uploading" /\ SinkState # "Uploading") \/ calls'.upload > calls.upload =>
        /\ calls'.write = 1
        /\ calls'.validate = 1
        /\ ~fileOpen /\ fileExists
        /\ fileContent' = fileContent
        /\ _validate_csv(fileContent)
        /\ failedAt = "none"
    /\ \A step \in StepsOf : calls'[step] <= 1
    /\ WithinCall /\ SinkState \in {"Failed", "Done"} =>
        /\ SinkState' = SinkState
        /\ calls' = calls
        /\ worldVars' = worldVars

\* C8: within one save_to_blob call the sink moves only along Idle, Writing,
\* Validating, Uploading, Done or from one of the three middle states to Failed;
\* the upload starts only after the file was written and closed and validation
\* accepted it; no step runs twice; from Failed (and Done) no further step is
\* taken in that call.
C8_SinkStateMachine == [][C8_Step]_vars

\* the sink failed during the upload, after a write and an accepted validation
C8_Witness ==
    /\ SinkState = "Failed"
    /\ failedAt = "upload"
    /\ calls.write = 1 /\ calls.validate = 1 /\ calls.upload = 1

----------------------------------------------------------------------------
(* C9 *)

\* C9 as stated: once save_to_blob has returned and a backup file is on disk,
\* the blob has the content of the backup file.
C9_BlobAlwaysEqualsFile ==
    pc \in {"saved", "failed"} /\ fileExists =>
        blobExists /\ blobContent = fileContent

C9_Step ==
    /\ pc' = "saved" =>
        /\ fileExists' /\ blobExists' /\ containerExists'
        /\ blobContent' = fileContent'
        /\ fileContent' = CsvContent(sentiment_df')
        /\ Len(ReadLines(fileContent')) = 1 + Len(sentiment_df')
    /\ pc' # "saved" \/ pc = "saved" =>
        /\ blobExists' = blobExists
        /\ blobContent' = blobContent

\* C9 as amended: when save_to_blob returns true, the blob has the content of
\* the backup file, and that content is the header and one row per record of
\* this call's table, nothing of an earlier run; no other step of any run
\* changes the blob.
C9_BlobEqualsFileAfterSuccess == [][C9_Step]_vars

\* a second successful save of the same table, after a first one that uploaded
\* other content
C9_Witness ==
    /\ pc = "saved"
    /\ saves = 2
    /\ Len(sentiment_df) = 2
    /\ blobContent = fileContent
    /\ blobContent # CsvContent(dfAtCall)

----------------------------------------------------------------------------
(* C10 *)

AfterCleanStep ==
    {"open", "write", "validate", "connect", "exists", "create", "upload", "saved", "failed"}

\* C10: from the write step on, and after save_to_blob has returned true or
\* false, the caller's table has the rows it had at the call, in the same
\* order, each with its headline cleaned and its other values unchanged.
C10_TableCleanedInPlace ==
    pc \in AfterCleanStep =>
        /\ Len(sentiment_df) = Len(dfAtCall)
        /\ \A i \in 1..Len(dfAtCall) :
            /\ sentiment_df[i].headline = _clean_headline(dfAtCall[i].headline)
            /\ sentiment_df[i].negative = dfAtCall[i].negative
            /\ sentiment_df[i].neutral = dfAtCall[i].neutral
            /\ sentiment_df[i].positive = dfAtCall[i].positive
            /\ sentiment_df[i].compound = dfAtCall[i].compound
            /\ sentiment_df[i].label = dfAtCall[i].label

\* a second save that failed: a headline already cleaned was cleaned again and
\* differs from its form after the first save
C10_Witness ==
    /\ pc = "failed"
    /\ saves = 2
    /\ \E i \in 1..Len(sentiment_df) :
        /\ dfAtCall[i].headline = _clean_headline(headlines[i])
        /\ sentiment_df[i].headline # dfAtCall[i].headline

====
